---- MODULE Spec2Model ----
(***************************************************************************)
(* Model of the 2D-nonce transaction pool (TwoDimensionalPool, MergeByTip) *)
(* and of the NonceManager precompile's expiring-nonce buffer.             *)
(***************************************************************************)
EXTENDS Integers, Sequences, FiniteSets, TLC

VARIABLES
    \* TwoDimensionalPool (crates/transaction-pool/src/twod/pool.rs)
    pending,        \* HashMap<SenderKey, BTreeMap<u64, tx>>
    queued,         \* HashMap<SenderKey, BTreeMap<u64, tx>>
    ordering,       \* BTreeMap<(u128, TransactionId), tx>
    nonce_state,    \* HashMap<SenderKey, u64>
    by_hash,        \* HashMap<TxHash, tx>
    result,         \* what the last add_transaction call returned
    accepted,       \* history: hashes some add_transaction call returned Ok for
    held,           \* history: of those, the ones no state change confirmed since
    \* MergeByTip (crates/transaction-pool/src/twod/tempo_pool.rs)
    vanilla,        \* the first input, not yet consumed part
    twod,           \* the second input, not yet consumed part
    in_vanilla,     \* history: the first input as given to MergeByTip::new
    in_twod,        \* history: the second input as given to MergeByTip::new
    yielded,        \* history: the elements next() has returned so far
    pulls,          \* history: the number of next() calls so far
    last_pull,      \* what the last next() call did
    \* NonceManager (crates/precompiles/src/nonce/mod.rs)
    expiring_nonce_seen,    \* Mapping<B256, u64>
    expiring_nonce_buffer,  \* Mapping<u64, B256>
    expiring_nonce_head,    \* u64
    expiring_nonce_tail,    \* u64
    now,                    \* the block timestamp the calls are made with
    nonce_result,           \* what the last check_and_mark_expiring_nonce returned
    max_mark,               \* history: per hash, the largest valid_before marked
    mark_slot,              \* history: per hash, the buffer slot of its last mark
    marks,                  \* history: the number of calls that returned Ok
    \* CombinedPool (crates/transaction-pool/src/twod/combined.rs); its
    \* twod_pool is the TwoDimensionalPool above
    vanilla_pool,           \* the vanilla Pool: what it holds and was told
    \* NonceManager: the keyed counters
    nonces,                 \* Mapping<Address, Mapping<U256, u64>>
    events,                 \* the events emitted, in order
    counter_result,         \* what the last increment_nonce returned
    succeeded               \* history: per counter, its successful increments

pool_vars  == <<pending, queued, ordering, nonce_state, by_hash, result, accepted, held>>
merge_vars == <<vanilla, twod, in_vanilla, in_twod, yielded, pulls, last_pull>>
nonce_vars == <<expiring_nonce_seen, expiring_nonce_buffer, expiring_nonce_head,
                expiring_nonce_tail, now, nonce_result, max_mark, mark_slot, marks>>
combined_vars == <<vanilla_pool>>
counter_vars == <<nonces, events, counter_result, succeeded>>
vars == <<pool_vars, merge_vars, nonce_vars, combined_vars, counter_vars>>

----------------------------------------------------------------------------
(* Bounds of the model *)

\* sequences and new_sequence values range over 0..MaxSeq
MaxSeq == 2
\* add_transaction is tried only while by_hash holds fewer transactions
MaxPool == 3

----------------------------------------------------------------------------
(* Generic map helpers: a Rust map is a function on the set of its keys *)

EmptyMap == << >>

MapInsert(m, k, v) == [x \in DOMAIN m \cup {k} |-> IF x = k THEN v ELSE m[x]]

MapRemove(m, k) == [x \in DOMAIN m \ {k} |-> m[x]]

\* Option<T> is the empty set (None) or a singleton (Some)
unwrap_or(opt, d) == IF opt = {} THEN d ELSE CHOOSE v \in opt : TRUE

----------------------------------------------------------------------------
(* Transactions, addresses and lanes *)

\* An address is <<first 8 bytes, remaining 12 bytes>>.  A1 and A2 share
\* their first 8 bytes.
A1 == <<1, 1>>
A2 == <<1, 2>>
Senders == {A1, A2}

\* The non-zero nonce keys used
NonceKeys == {1, 2}

\* The validated transactions offered to the pool: hash, sender,
\* transaction nonce and tip.  h1 and h3 have the same tip, the same nonce
\* and senders with the same first 8 bytes; h1 and h4 have the same tip;
\* h1, h2 and h4 are of one sender, so that one lane can hold three.
Txs == {
    [hash |-> "h1", sender |-> A1, nonce |-> 0, tip |-> 5],
    [hash |-> "h2", sender |-> A1, nonce |-> 1, tip |-> 7],
    [hash |-> "h3", sender |-> A2, nonce |-> 0, tip |-> 5],
    [hash |-> "h4", sender |-> A1, nonce |-> 2, tip |-> 5] }

Hashes == {t.hash : t \in Txs}

SenderKey(sender, nonce_key) == <<sender, nonce_key>>

Lanes == {SenderKey(s, k) : s \in Senders, k \in NonceKeys}

\* The lane the state updates name, with one entry per block at most
UpdateLanes == {SenderKey(A1, 1)}

Seqs == 0..MaxSeq

\* Some(tip) at base fee 0
effective_tip_per_gas(tx, base_fee) == {tx.tip}

\* first 8 bytes of the address as a u64
sender_id_from_address(addr) == addr[1]

\* TransactionId::new(sender_id, nonce), under the tip: the key of ordering
OrderingKey(tx) ==
    <<unwrap_or(effective_tip_per_gas(tx, 0), 0),
      sender_id_from_address(tx.sender), tx.nonce>>

\* Ord of (u128, TransactionId): lexicographic on tip, sender id, nonce
KeyLess(a, b) ==
    \/ a[1] < b[1]
    \/ a[1] = b[1] /\ a[2] < b[2]
    \/ a[1] = b[1] /\ a[2] = b[2] /\ a[3] < b[3]

----------------------------------------------------------------------------
(* TwoDimensionalPool: the operations on a pool value p *)

Pool == [pending |-> pending, queued |-> queued, ordering |-> ordering,
         nonce_state |-> nonce_state, by_hash |-> by_hash]

new == [pending |-> EmptyMap, queued |-> EmptyMap, ordering |-> EmptyMap,
        nonce_state |-> EmptyMap, by_hash |-> EmptyMap]

get_on_chain_sequence(p, sender_key) ==
    IF sender_key \in DOMAIN p.nonce_state THEN p.nonce_state[sender_key] ELSE 0

\* entry(sender_key).or_default().insert(sequence, tx)
EntryInsert(m, sender_key, sequence, tx) ==
    MapInsert(m, sender_key,
              MapInsert(IF sender_key \in DOMAIN m THEN m[sender_key] ELSE EmptyMap,
                        sequence, tx))

add_to_pending(p, sender_key, sequence, tx) ==
    [p EXCEPT !.pending = EntryInsert(@, sender_key, sequence, tx)]

add_to_queued(p, sender_key, sequence, tx) ==
    [p EXCEPT !.queued = EntryInsert(@, sender_key, sequence, tx)]

\* self.ordering.insert((tip, id), tx)
ordering_insert(p, tx) ==
    [p EXCEPT !.ordering = MapInsert(@, OrderingKey(tx), tx)]

\* The loop of promote_queued_chain stopping after its first iteration
PromotionRunSingle(queued_txs, next_seq) ==
    IF next_seq \in DOMAIN queued_txs THEN <<next_seq>> ELSE << >>

\* The while loop of promote_queued_chain: the sequences start_sequence,
\* start_sequence + 1, ... removed from queued_txs, up to the first absent one
RECURSIVE PromotionRun(_, _)
PromotionRun(queued_txs, next_seq) ==
    IF next_seq \in DOMAIN queued_txs
    THEN <<next_seq>> \o PromotionRun(queued_txs, next_seq + 1)
    ELSE << >>

\* The for loop of promote_queued_chain over the promotions collected
RECURSIVE ApplyPromotions(_, _, _)
ApplyPromotions(p, sender_key, promotions) ==
    IF promotions = << >> THEN p
    ELSE LET pr == Head(promotions)
             p1 == add_to_pending(p, sender_key, pr[1], pr[2])
             p2 == ordering_insert(p1, pr[2])
         IN ApplyPromotions(p2, sender_key, Tail(promotions))

promote_queued_chain(p, sender_key, start_sequence) ==
    IF sender_key \in DOMAIN p.queued
    THEN LET queued_txs == p.queued[sender_key]
             run == PromotionRun(queued_txs, start_sequence)
             promotions == [i \in 1..Len(run) |-> <<run[i], queued_txs[run[i]]>>]
             rest == [s \in DOMAIN queued_txs \ {run[i] : i \in 1..Len(run)}
                        |-> queued_txs[s]]
             p1 == [p EXCEPT !.queued =
                        IF DOMAIN rest = {} THEN MapRemove(@, sender_key)
                        ELSE MapInsert(@, sender_key, rest)]
         IN ApplyPromotions(p1, sender_key, promotions)
    ELSE p

\* The for loop of remove_confirmed_transactions over to_remove
RECURSIVE RemoveEach(_, _, _)
RemoveEach(p, sender_key, to_remove) ==
    IF to_remove = {} THEN p
    ELSE LET seq == CHOOSE s \in to_remove : \A o \in to_remove : s <= o
             tx == p.pending[sender_key][seq]
             p1 == [p EXCEPT !.pending[sender_key] = MapRemove(@, seq),
                             !.ordering = MapRemove(@, OrderingKey(tx)),
                             !.by_hash = MapRemove(@, tx.hash)]
         IN RemoveEach(p1, sender_key, to_remove \ {seq})

\* remove_confirmed_transactions with range(..=confirmed_seq)
remove_confirmed_inclusive(p, sender_key, confirmed_seq) ==
    IF sender_key \in DOMAIN p.pending
    THEN LET to_remove == {s \in DOMAIN p.pending[sender_key] : s <= confirmed_seq}
             p1 == RemoveEach(p, sender_key, to_remove)
         IN IF DOMAIN p1.pending[sender_key] = {}
            THEN [p1 EXCEPT !.pending = MapRemove(@, sender_key)]
            ELSE p1
    ELSE p

remove_confirmed_transactions(p, sender_key, confirmed_seq) ==
    IF sender_key \in DOMAIN p.pending
    THEN LET to_remove == {s \in DOMAIN p.pending[sender_key] : s < confirmed_seq}
             p1 == RemoveEach(p, sender_key, to_remove)
         IN IF DOMAIN p1.pending[sender_key] = {}
            THEN [p1 EXCEPT !.pending = MapRemove(@, sender_key)]
            ELSE p1
    ELSE p

\* What add_transaction returns
AlreadyImported == "Transaction already imported"
SequenceOutdated == "Transaction sequence outdated"

\* The checks of add_transaction with sequence <= on_chain_seq as outdated
add_transaction_result_inclusive(p, tx, nonce_key, sequence) ==
    LET sender_key == SenderKey(tx.sender, nonce_key)
    IN IF tx.hash \in DOMAIN p.by_hash THEN AlreadyImported
       ELSE IF sequence <= get_on_chain_sequence(p, sender_key) THEN SequenceOutdated
       ELSE "Ok"

add_transaction_result(p, tx, nonce_key, sequence) ==
    LET sender_key == SenderKey(tx.sender, nonce_key)
    IN IF tx.hash \in DOMAIN p.by_hash THEN AlreadyImported
       ELSE IF sequence < get_on_chain_sequence(p, sender_key) THEN SequenceOutdated
       ELSE "Ok"

\* Result<TxHash, PoolError>: Ok(tx_hash) or the error
add_transaction_value(p, tx, nonce_key, sequence) ==
    IF add_transaction_result(p, tx, nonce_key, sequence) = "Ok"
    THEN [Ok |-> tx.hash]
    ELSE [Err |-> add_transaction_result(p, tx, nonce_key, sequence)]

\* add_transaction with the by_hash insert ahead of the sequence check
add_transaction_pool_insert_first(p, tx, nonce_key, sequence) ==
    LET sender_key == SenderKey(tx.sender, nonce_key)
        on_chain_seq == get_on_chain_sequence(p, sender_key)
    IN IF tx.hash \in DOMAIN p.by_hash THEN p
       ELSE LET p1 == [p EXCEPT !.by_hash = MapInsert(@, tx.hash, tx)]
            IN IF sequence < on_chain_seq THEN p1
               ELSE IF sequence = on_chain_seq
               THEN promote_queued_chain(
                        ordering_insert(add_to_pending(p1, sender_key, sequence, tx), tx),
                        sender_key, sequence + 1)
               ELSE add_to_queued(p1, sender_key, sequence, tx)

\* add_transaction with the ordering insert made in the queue branch too
add_transaction_pool_order_queued(p, tx, nonce_key, sequence) ==
    LET sender_key == SenderKey(tx.sender, nonce_key)
        on_chain_seq == get_on_chain_sequence(p, sender_key)
    IN IF add_transaction_result(p, tx, nonce_key, sequence) # "Ok" THEN p
       ELSE LET p1 == [p EXCEPT !.by_hash = MapInsert(@, tx.hash, tx)]
            IN IF sequence = on_chain_seq
               THEN promote_queued_chain(
                        ordering_insert(add_to_pending(p1, sender_key, sequence, tx), tx),
                        sender_key, sequence + 1)
               ELSE ordering_insert(add_to_queued(p1, sender_key, sequence, tx), tx)

\* The pool after add_transaction(tx, nonce_key, sequence)
add_transaction_pool(p, tx, nonce_key, sequence) ==
    LET sender_key == SenderKey(tx.sender, nonce_key)
        on_chain_seq == get_on_chain_sequence(p, sender_key)
    IN IF add_transaction_result(p, tx, nonce_key, sequence) # "Ok" THEN p
       ELSE LET p1 == [p EXCEPT !.by_hash = MapInsert(@, tx.hash, tx)]
            IN IF sequence = on_chain_seq
               THEN promote_queued_chain(
                        ordering_insert(add_to_pending(p1, sender_key, sequence, tx), tx),
                        sender_key, sequence + 1)
               ELSE add_to_queued(p1, sender_key, sequence, tx)

\* The loop body with the promotion started one after new_sequence
apply_update_promote_after(p, sender_key, new_sequence) ==
    LET p1 == [p EXCEPT !.nonce_state = MapInsert(@, sender_key, new_sequence)]
        p2 == remove_confirmed_transactions(p1, sender_key, new_sequence)
    IN promote_queued_chain(p2, sender_key, new_sequence + 1)

\* The loop body with nonce_state keyed by the sender alone
apply_update_by_sender(p, sender_key, new_sequence) ==
    LET p1 == [p EXCEPT !.nonce_state =
                   [l \in DOMAIN p.nonce_state \cup {sender_key} |->
                       IF l[1] = sender_key[1] THEN new_sequence
                       ELSE p.nonce_state[l]]]
        p2 == remove_confirmed_transactions(p1, sender_key, new_sequence)
    IN promote_queued_chain(p2, sender_key, new_sequence)

\* One iteration of the loop of on_canonical_state_change
apply_update(p, sender_key, new_sequence) ==
    LET p1 == [p EXCEPT !.nonce_state = MapInsert(@, sender_key, new_sequence)]
        p2 == remove_confirmed_transactions(p1, sender_key, new_sequence)
    IN promote_queued_chain(p2, sender_key, new_sequence)

\* set_on_chain_sequence that evicts and promotes as a state change does
set_on_chain_sequence_evicting(p, sender_key, sequence) ==
    apply_update(p, sender_key, sequence)

\* The pool after set_on_chain_sequence(sender_key, sequence)
set_on_chain_sequence_pool(p, sender_key, sequence) ==
    [p EXCEPT !.nonce_state = MapInsert(@, sender_key, sequence)]

\* The values by ascending key: values() without rev()
RECURSIVE AscendingValues(_)
AscendingValues(m) ==
    IF DOMAIN m = {} THEN << >>
    ELSE LET low == CHOOSE k \in DOMAIN m : \A o \in DOMAIN m : o = k \/ KeyLess(k, o)
         IN <<m[low]>> \o AscendingValues(MapRemove(m, low))

\* self.ordering.values().rev(): the values by descending key
RECURSIVE DescendingValues(_)
DescendingValues(m) ==
    IF DOMAIN m = {} THEN << >>
    ELSE LET top == CHOOSE k \in DOMAIN m : \A o \in DOMAIN m : o = k \/ KeyLess(o, k)
         IN <<m[top]>> \o DescendingValues(MapRemove(m, top))

best_transactions(p) == DescendingValues(p.ordering)

\* The loop of on_canonical_state_change over updates
RECURSIVE apply_updates(_, _)
apply_updates(p, updates) ==
    IF updates = << >> THEN p
    ELSE apply_updates(apply_update(p, Head(updates)[1], Head(updates)[2]),
                       Tail(updates))

----------------------------------------------------------------------------
(* TwoDimensionalPool: the actions *)

\* The update lists given to on_canonical_state_change
UpdateLists == UNION {[1..n -> UpdateLanes \X Seqs] : n \in 0..1}

\* The hashes of the pending transactions the updates confirm: those a lane
\* holds below its new_sequence when its update is applied
RECURSIVE ConfirmedBy(_, _)
ConfirmedBy(p, updates) ==
    IF updates = << >> THEN {}
    ELSE LET sender_key == Head(updates)[1]
             new_sequence == Head(updates)[2]
             here == IF sender_key \in DOMAIN p.pending
                     THEN {p.pending[sender_key][s].hash :
                              s \in {q \in DOMAIN p.pending[sender_key] : q < new_sequence}}
                     ELSE {}
         IN here \cup ConfirmedBy(apply_update(p, sender_key, new_sequence),
                                  Tail(updates))

SetPool(p) ==
    /\ pending' = p.pending
    /\ queued' = p.queued
    /\ ordering' = p.ordering
    /\ nonce_state' = p.nonce_state
    /\ by_hash' = p.by_hash

add_transaction(tx, nonce_key, sequence) ==
    /\ Cardinality(DOMAIN by_hash) < MaxPool
    /\ \E p \in {add_transaction_pool(Pool, tx, nonce_key, sequence)} : SetPool(p)
    /\ result' = add_transaction_result(Pool, tx, nonce_key, sequence)
    /\ accepted' = IF result' = "Ok" THEN accepted \cup {tx.hash} ELSE accepted
    /\ held' = IF result' = "Ok" THEN held \cup {tx.hash} ELSE held

on_canonical_state_change(updates) ==
    /\ \E p \in {apply_updates(Pool, updates)} : SetPool(p)
    /\ held' = held \ ConfirmedBy(Pool, updates)
    /\ UNCHANGED <<result, accepted>>

set_on_chain_sequence(sender_key, sequence) ==
    /\ \E p \in {set_on_chain_sequence_pool(Pool, sender_key, sequence)} : SetPool(p)
    /\ UNCHANGED <<result, accepted, held>>

PoolInit ==
    /\ pending = new.pending
    /\ queued = new.queued
    /\ ordering = new.ordering
    /\ nonce_state = new.nonce_state
    /\ by_hash = new.by_hash
    /\ result = "none"
    /\ accepted = {}
    /\ held = {}

MergeIdle ==
    /\ vanilla = << >> /\ twod = << >>
    /\ in_vanilla = << >> /\ in_twod = << >>
    /\ yielded = << >> /\ pulls = 0 /\ last_pull = "none"

\* the expiring-nonce buffer takes entries while its tail is below MaxTail
MaxTail == 4
\* the block timestamps are 0..MaxNow, max_skew_secs is in 1..MaxSkew
MaxNow == 3
MaxSkew == 2

\* a burst fills the expiring-nonce buffer up to MaxFill entries
MaxFill == 16

\* B256::ZERO and the transaction hashes given to the NonceManager
B256_ZERO == 0
TxHashes == {B256_ZERO, 1, 2}

\* The hashes and the buffer indexes of the storage slots the model reads
StoredHashes == 0..MaxFill
BufferSlots == 0..MaxFill

\* NonceManager::new() on empty storage: every slot reads 0
NonceIdle ==
    /\ expiring_nonce_seen = [h \in StoredHashes |-> 0]
    /\ expiring_nonce_buffer = [i \in BufferSlots |-> B256_ZERO]
    /\ expiring_nonce_head = 0
    /\ expiring_nonce_tail = 0
    /\ now = 0
    /\ nonce_result = "none"
    /\ max_mark = [h \in StoredHashes |-> 0]
    /\ mark_slot = [h \in StoredHashes |-> 0]
    /\ marks = 0

\* Pool::new: the vanilla pool holds no transaction and knows no account
\* nonce
VanillaInit == vanilla_pool = [txs |-> << >>, nonces |-> EmptyMap]

\* The nonce keys given to get_nonce and increment_nonce: 0 is the protocol
\* nonce
CounterKeys == {0} \cup NonceKeys

Counters == Senders \X CounterKeys

\* The keyed counters on empty storage
CounterIdle ==
    /\ nonces = [c \in Counters |-> 0]
    /\ events = << >>
    /\ counter_result = [None |-> "none"]
    /\ succeeded = [c \in Counters |-> 0]

Init == PoolInit /\ MergeIdle /\ NonceIdle /\ VanillaInit /\ CounterIdle

AddNext ==
    /\ \E tx \in Txs, nonce_key \in NonceKeys, sequence \in Seqs :
            add_transaction(tx, nonce_key, sequence)
    /\ UNCHANGED <<merge_vars, nonce_vars, combined_vars, counter_vars>>

StateChangeNext ==
    /\ \E updates \in UpdateLists : on_canonical_state_change(updates)
    /\ UNCHANGED <<merge_vars, nonce_vars, combined_vars, counter_vars>>

SetSequenceNext ==
    /\ \E sender_key \in UpdateLanes, sequence \in Seqs :
            set_on_chain_sequence(sender_key, sequence)
    /\ UNCHANGED <<merge_vars, nonce_vars, combined_vars, counter_vars>>

\* The pool under all its operations
Next == AddNext \/ StateChangeNext \/ SetSequenceNext

Spec == Init /\ [][Next]_vars

\* The pool under add_transaction and on_canonical_state_change alone
AdmitNext == AddNext \/ StateChangeNext

SpecAdmit == Init /\ [][AdmitNext]_vars

----------------------------------------------------------------------------
(* TwoDimensionalPool: derived views of the state *)

PendingSeqs(lane) == IF lane \in DOMAIN pending THEN DOMAIN pending[lane] ELSE {}

QueuedSeqs(lane) == IF lane \in DOMAIN queued THEN DOMAIN queued[lane] ELSE {}

PendingTxs == UNION {{pending[lane][s] : s \in DOMAIN pending[lane]} :
                        lane \in DOMAIN pending}

PendingCount == Cardinality({<<lane, s>> \in (DOMAIN pending) \X (0..(MaxSeq + 1)) :
                                s \in DOMAIN pending[lane]})

OrderingTxs == {ordering[k] : k \in DOMAIN ordering}

TipOf(tx) == unwrap_or(effective_tip_per_gas(tx, 0), 0)

Best == best_transactions(Pool)

----------------------------------------------------------------------------
(* TwoDimensionalPool: the claims *)

\* C1: for every lane, the sequences held in pending[lane] are exactly the
\* contiguous range [baseline, baseline + k), baseline = nonce_state[lane]
\* (0 when unset), after any add_transaction and on_canonical_state_change
\* calls.
C1_PendingContiguous ==
    \A lane \in Lanes :
        LET baseline == get_on_chain_sequence(Pool, lane)
            k == Cardinality(PendingSeqs(lane))
        IN PendingSeqs(lane) = {s \in 0..(MaxSeq + 1) : baseline <= s /\ s < baseline + k}

\* C2: for every lane, every sequence held in queued[lane] is strictly
\* greater than baseline + k, where [baseline, baseline + k) is the pending
\* range of the lane.
C2_QueuedBeyondPending ==
    \A lane \in Lanes :
        LET baseline == get_on_chain_sequence(Pool, lane)
            k == Cardinality(PendingSeqs(lane))
        IN \A s \in QueuedSeqs(lane) : s > baseline + k

\* C3: a transaction is an entry of ordering if and only if it is an entry
\* of some pending[lane], and the number of ordering entries equals the total
\* number of pending entries over all lanes.
C3_OrderingMirrorsPending ==
    /\ \A tx \in Txs : tx \in OrderingTxs <=> tx \in PendingTxs
    /\ Cardinality(DOMAIN ordering) = PendingCount

\* C5 as claimed: an add_transaction whose hash an earlier add_transaction
\* accepted returns an error, whatever lane and sequence it names and
\* whatever state changes happened in between.
C5_NoReadmission ==
    \A tx \in Txs, nonce_key \in NonceKeys, sequence \in Seqs :
        tx.hash \in accepted =>
            add_transaction_result(Pool, tx, nonce_key, sequence) # "Ok"

\* C5 as amended: an add_transaction whose hash an earlier add_transaction
\* accepted, and whose transaction no on_canonical_state_change has removed
\* as confirmed since, returns the error "already imported", whatever lane
\* and sequence it names.
C5_HeldHashRejected ==
    \A tx \in Txs, nonce_key \in NonceKeys, sequence \in Seqs :
        tx.hash \in held =>
            add_transaction_result(Pool, tx, nonce_key, sequence) = AlreadyImported

\* A duplicate was rejected after a state change had confirmed another
\* accepted transaction.
C5_Witness ==
    /\ result = AlreadyImported
    /\ held # {}
    /\ accepted \ held # {}

\* C6: in the stream of best_transactions, two pending transactions of the
\* same lane appear in increasing sequence order.
C6_LaneOrderInBest ==
    \A lane \in DOMAIN pending :
        \A s1, s2 \in DOMAIN pending[lane] :
            s1 < s2 =>
                \A i, j \in 1..Len(Best) :
                    (Best[i] = pending[lane][s1] /\ Best[j] = pending[lane][s2])
                        => i < j

\* C7: best_transactions yields every pending transaction exactly once and
\* nothing that is not pending.
C7_BestYieldsExactlyPending ==
    /\ {Best[i] : i \in 1..Len(Best)} = PendingTxs
    /\ Len(Best) = PendingCount
    /\ \A i, j \in 1..Len(Best) : Best[i] = Best[j] => i = j

\* C8 as claimed: the tips of the successive transactions yielded by one
\* best_transactions iteration are strictly descending.
C8_TipsStrictlyDescending ==
    \A i \in 1..(Len(Best) - 1) : TipOf(Best[i]) > TipOf(Best[i + 1])

\* C8 as amended: the tips of the successive transactions yielded by one
\* best_transactions iteration never increase; transactions of equal tip
\* follow each other.
C8_TipsNonIncreasing ==
    \A i \in 1..(Len(Best) - 1) : TipOf(Best[i]) >= TipOf(Best[i + 1])

\* The stream holds a step down in tip and two transactions of equal tip.
C8_Witness ==
    /\ Len(Best) >= 3
    /\ \E i \in 1..(Len(Best) - 1) : TipOf(Best[i]) > TipOf(Best[i + 1])
    /\ \E i \in 1..(Len(Best) - 1) : TipOf(Best[i]) = TipOf(Best[i + 1])

\* What a pool value p holds for one lane: its pending and queued entries
\* and its baseline, None when unset
LanePending(p, lane) == IF lane \in DOMAIN p.pending THEN p.pending[lane] ELSE EmptyMap

LaneQueued(p, lane) == IF lane \in DOMAIN p.queued THEN p.queued[lane] ELSE EmptyMap

LaneNonce(p, lane) == IF lane \in DOMAIN p.nonce_state THEN {p.nonce_state[lane]} ELSE {}

LaneView(p, lane) == <<LanePending(p, lane), LaneQueued(p, lane), LaneNonce(p, lane)>>

\* C11: for any two distinct lanes A and B, an add_transaction on lane A, an
\* on_canonical_state_change update for lane A and a set_on_chain_sequence
\* for lane A leave pending[B], queued[B] and nonce_state[B] unchanged.
C11_LaneIsolation ==
    \A A, B \in Lanes :
        A # B =>
            /\ \A tx \in Txs, sequence \in Seqs :
                    tx.sender = A[1] =>
                        LaneView(add_transaction_pool(Pool, tx, A[2], sequence), B)
                            = LaneView(Pool, B)
            /\ \A new_sequence \in Seqs :
                    LaneView(apply_update(Pool, A, new_sequence), B) = LaneView(Pool, B)
            /\ \A sequence \in Seqs :
                    LaneView(set_on_chain_sequence_pool(Pool, A, sequence), B)
                        = LaneView(Pool, B)

\* Two lanes of one sender hold pending transactions, a lane of another
\* sender holds a queued one and a baseline is set, after an accepted
\* add_transaction.
C11_Witness ==
    /\ result = "Ok"
    /\ SenderKey(A1, 1) \in DOMAIN pending
    /\ SenderKey(A1, 2) \in DOMAIN pending
    /\ SenderKey(A2, 1) \in DOMAIN queued
    /\ SenderKey(A1, 1) \in DOMAIN nonce_state

\* The length m of the contiguous run s+1 .. s+m of seqs
RunLength(seqs, s) ==
    CHOOSE m \in 0..(MaxSeq + 1) :
        (\A i \in 1..m : s + i \in seqs) /\ (s + m + 1 \notin seqs)

InOrdering(p, tx) == \E k \in DOMAIN p.ordering : p.ordering[k] = tx

C13_StateChangeEviction ==
    \A lane \in Lanes, n \in Seqs :
        LET after == apply_update(Pool, lane, n)
        IN /\ LaneNonce(after, lane) = {n}
           /\ \A s \in DOMAIN LanePending(Pool, lane) :
                 s < n =>
                    LET tx == pending[lane][s]
                    IN /\ s \notin DOMAIN LanePending(after, lane)
                       /\ ~InOrdering(after, tx)
                       /\ tx.hash \notin DOMAIN after.by_hash
           /\ \A other \in Lanes :
                 \A s \in DOMAIN LanePending(Pool, other) :
                    (other # lane \/ s >= n) =>
                        LET tx == pending[other][s]
                        IN /\ s \in DOMAIN LanePending(after, other)
                           /\ LanePending(after, other)[s] = tx
                           /\ InOrdering(Pool, tx) => InOrdering(after, tx)
                           /\ tx.hash \in DOMAIN after.by_hash

C15_AddTransactionErrors ==
    \A tx \in Txs, nonce_key \in NonceKeys, sequence \in Seqs :
        LET lane == SenderKey(tx.sender, nonce_key)
            baseline == IF lane \in DOMAIN nonce_state THEN nonce_state[lane] ELSE 0
            returned == add_transaction_value(Pool, tx, nonce_key, sequence)
        IN IF tx.hash \in DOMAIN by_hash THEN returned = [Err |-> AlreadyImported]
           ELSE IF sequence < baseline THEN returned = [Err |-> SequenceOutdated]
           ELSE returned = [Ok |-> tx.hash]

\* A call was rejected as outdated while the pool holds a transaction and
\* a lane whose baseline is above 0.
C15_Witness ==
    /\ result = SequenceOutdated
    /\ DOMAIN by_hash # {}
    /\ SenderKey(A1, 1) \in DOMAIN nonce_state
    /\ nonce_state[SenderKey(A1, 1)] > 0

\* C16: an add_transaction call that returns an error leaves pending,
\* queued, ordering, nonce_state and by_hash as they were before the call.
C16_ErrorLeavesPool ==
    \A tx \in Txs, nonce_key \in NonceKeys, sequence \in Seqs :
        LET after == add_transaction_pool(Pool, tx, nonce_key, sequence)
        IN add_transaction_result(Pool, tx, nonce_key, sequence) # "Ok"
           => /\ after.pending = pending
              /\ after.queued = queued
              /\ after.ordering = ordering
              /\ after.nonce_state = nonce_state
              /\ after.by_hash = by_hash

\* A duplicate was rejected by a pool that holds pending and queued
\* transactions.
C16_Witness ==
    /\ result = AlreadyImported
    /\ DOMAIN pending # {}
    /\ DOMAIN queued # {}
    /\ DOMAIN nonce_state # {}

\* C19: set_on_chain_sequence(lane, seq) changes only nonce_state[lane],
\* setting it to seq: pending, queued, ordering and by_hash are unchanged (no
\* eviction below seq, no promotion at seq) and so is nonce_state of the
\* other lanes.
C19_SetSequenceFrame ==
    \A lane \in Lanes, seq \in Seqs :
        LET after == set_on_chain_sequence_pool(Pool, lane, seq)
        IN /\ LaneNonce(after, lane) = {seq}
           /\ after.pending = pending
           /\ after.queued = queued
           /\ after.ordering = ordering
           /\ after.by_hash = by_hash
           /\ \A other \in Lanes \ {lane} : LaneNonce(after, other) = LaneNonce(Pool, other)

\* After set_on_chain_sequence the lane holds a pending entry below its
\* baseline and a queued entry at its baseline.
C19_Witness ==
    LET lane == SenderKey(A1, 1)
    IN /\ lane \in DOMAIN nonce_state /\ lane \in DOMAIN pending /\ lane \in DOMAIN queued
       /\ \E s \in DOMAIN pending[lane] : s < nonce_state[lane]
       /\ nonce_state[lane] \in DOMAIN queued[lane]

----------------------------------------------------------------------------
(* MergeByTip *)

\* the inputs hold at most MaxLen elements each, with tips in 0..MaxTip
MaxLen == 2
MaxTip == 2

TipSeqs == UNION {[1..n -> 0..MaxTip] : n \in 0..MaxLen}

\* The elements of an input: the transaction at position pos of input src
Elements(src, tips) ==
    [i \in 1..Len(tips) |-> [src |-> src, pos |-> i, tip |-> tips[i]]]

\* self.vanilla.peek() / self.twod.peek()
peek(iter) == IF iter = << >> THEN {} ELSE {Head(iter)}

\* The input the match of next() consumes with ties to the second input:
\* v_tip > t_tip
take_side_strict(v, t) ==
    IF v # {} /\ t # {}
    THEN LET v_tip == unwrap_or(effective_tip_per_gas(CHOOSE x \in v : TRUE, 0), 0)
             t_tip == unwrap_or(effective_tip_per_gas(CHOOSE x \in t : TRUE, 0), 0)
         IN IF v_tip > t_tip THEN "vanilla" ELSE "twod"
    ELSE IF v # {} THEN "vanilla"
    ELSE IF t # {} THEN "twod"
    ELSE "None"

\* The input the match of next() consumes when it stops once the second
\* input is exhausted
take_side_no_drain(v, t) ==
    IF v # {} /\ t # {}
    THEN LET v_tip == unwrap_or(effective_tip_per_gas(CHOOSE x \in v : TRUE, 0), 0)
             t_tip == unwrap_or(effective_tip_per_gas(CHOOSE x \in t : TRUE, 0), 0)
         IN IF v_tip >= t_tip THEN "vanilla" ELSE "twod"
    ELSE IF t # {} THEN "twod"
    ELSE "None"

\* The input the match of next() consumes, given the two peeked heads
take_side(v, t) ==
    IF v # {} /\ t # {}
    THEN LET v_tip == unwrap_or(effective_tip_per_gas(CHOOSE x \in v : TRUE, 0), 0)
             t_tip == unwrap_or(effective_tip_per_gas(CHOOSE x \in t : TRUE, 0), 0)
         IN IF v_tip >= t_tip THEN "vanilla" ELSE "twod"
    ELSE IF v # {} THEN "vanilla"
    ELSE IF t # {} THEN "twod"
    ELSE "None"

\* MergeByTip::next
next ==
    /\ pulls <= Len(in_vanilla) + Len(in_twod)
    /\ LET side == take_side(peek(vanilla), peek(twod))
       IN /\ vanilla' = IF side = "vanilla" THEN Tail(vanilla) ELSE vanilla
          /\ twod' = IF side = "twod" THEN Tail(twod) ELSE twod
          /\ yielded' = IF side = "vanilla" THEN Append(yielded, Head(vanilla))
                        ELSE IF side = "twod" THEN Append(yielded, Head(twod))
                        ELSE yielded
          /\ last_pull' = side
    /\ pulls' = pulls + 1
    /\ UNCHANGED <<in_vanilla, in_twod>>

\* MergeByTip::new(vanilla, twod)
MergeInit ==
    /\ in_vanilla \in {Elements("vanilla", tips) : tips \in TipSeqs}
    /\ in_twod \in {Elements("twod", tips) : tips \in TipSeqs}
    /\ vanilla = in_vanilla
    /\ twod = in_twod
    /\ yielded = << >>
    /\ pulls = 0
    /\ last_pull = "none"

MergeNext == next /\ UNCHANGED <<pool_vars, nonce_vars, combined_vars, counter_vars>>

InitMerge == PoolInit /\ MergeInit /\ NonceIdle /\ VanillaInit /\ CounterIdle

SpecMerge == InitMerge /\ [][MergeNext]_vars

TipDescending(seq) ==
    \A i \in 1..(Len(seq) - 1) : TipOf(seq[i]) >= TipOf(seq[i + 1])

RECURSIVE FromInput(_, _)
FromInput(seq, src) ==
    IF seq = << >> THEN << >>
    ELSE IF Head(seq).src = src THEN <<Head(seq)>> \o FromInput(Tail(seq), src)
    ELSE FromInput(Tail(seq), src)

\* C9: for two tip-descending inputs the sequence yielded is tip-descending
\* (non-increasing), and whenever the two current heads have equal tips the
\* element of the first input is the one yielded.
C9_MergeOrder ==
    /\ [](TipDescending(in_vanilla) /\ TipDescending(in_twod) => TipDescending(yielded))
    /\ [][(/\ TipDescending(in_vanilla) /\ TipDescending(in_twod)
           /\ vanilla # << >> /\ twod # << >>
           /\ TipOf(Head(vanilla)) = TipOf(Head(twod)))
          => yielded' = Append(yielded, Head(vanilla))]_merge_vars

\* Both inputs are tip-descending and both are used up, after a pull at
\* which the two heads had equal tips.
C9_Witness ==
    /\ TipDescending(in_vanilla) /\ TipDescending(in_twod)
    /\ vanilla = << >> /\ twod = << >>
    /\ Len(in_vanilla) >= 2 /\ Len(in_twod) >= 2
    /\ \E i \in 1..(Len(yielded) - 1) :
          /\ yielded[i].src = "vanilla" /\ yielded[i + 1].src = "twod"
          /\ TipOf(yielded[i]) = TipOf(yielded[i + 1])
    /\ \E i \in 1..(Len(yielded) - 1) : TipOf(yielded[i]) > TipOf(yielded[i + 1])

\* C10: for any two inputs, the elements yielded are a permutation of the
\* elements consumed that keeps each input in its order, every pull consumes
\* exactly one element of one input while one is left, and next() returns
\* None after exactly len(first) + len(second) pulls.
C10_MergePermutation ==
    LET total == Len(in_vanilla) + Len(in_twod)
    IN /\ FromInput(yielded, "vanilla") \o vanilla = in_vanilla
       /\ FromInput(yielded, "twod") \o twod = in_twod
       /\ Len(yielded) = IF pulls <= total THEN pulls ELSE total
       /\ (last_pull = "None") <=> (pulls = total + 1)
       /\ pulls = total + 1 => vanilla = << >> /\ twod = << >>

\* Two unsorted inputs were merged to the end and next() returned None.
C10_Witness ==
    /\ last_pull = "None"
    /\ Len(in_vanilla) >= 2 /\ Len(in_twod) >= 2
    /\ ~TipDescending(in_vanilla) /\ ~TipDescending(in_twod)
    /\ Len(yielded) = Len(in_vanilla) + Len(in_twod)

----------------------------------------------------------------------------
(* CombinedPool *)

Combined == [vanilla_pool |-> vanilla_pool, twod_pool |-> Pool]

\* all bytes of the key are 0
is_zero_key(key) == key = 0

\* Option<U192> and Option<u64> as given to CombinedPool::add_transaction
NonceKeyOptions == {{}} \cup {{k} : k \in NonceKeys \cup {0}}

SequenceOptions == {{}} \cup {{s} : s \in Seqs}

\* The first arm of the match: (Some(key), Some(seq)) if !is_zero_key(&key)
is_twod_arm(nonce_key, sequence) ==
    /\ nonce_key # {}
    /\ sequence # {}
    /\ ~is_zero_key(CHOOSE k \in nonce_key : TRUE)

\* The combined pool after CombinedPool::add_transaction: the second arm
\* takes the hash and touches neither pool
combined_add_transaction_pool(c, tx, nonce_key, sequence) ==
    IF is_twod_arm(nonce_key, sequence)
    THEN [c EXCEPT !.twod_pool =
             add_transaction_pool(@, tx, CHOOSE k \in nonce_key : TRUE,
                                  CHOOSE q \in sequence : TRUE)]
    ELSE c

combined_add_transaction_value(c, tx, nonce_key, sequence) ==
    IF is_twod_arm(nonce_key, sequence)
    THEN add_transaction_value(c.twod_pool, tx, CHOOSE k \in nonce_key : TRUE,
                               CHOOSE q \in sequence : TRUE)
    ELSE [Ok |-> tx.hash]

\* merge_pools(vanilla_iter, twod_iter), collected: the elements MergeByTip
\* yields up to None
RECURSIVE merge_pools(_, _)
merge_pools(vanilla_iter, twod_iter) ==
    LET side == take_side(peek(vanilla_iter), peek(twod_iter))
    IN IF side = "vanilla"
       THEN <<Head(vanilla_iter)>> \o merge_pools(Tail(vanilla_iter), twod_iter)
       ELSE IF side = "twod"
       THEN <<Head(twod_iter)>> \o merge_pools(vanilla_iter, Tail(twod_iter))
       ELSE << >>

combined_best_transactions(c) ==
    merge_pools(c.vanilla_pool.txs, best_transactions(c.twod_pool))

\* The combined pool after CombinedPool::on_canonical_state_change:
\* _vanilla_updates is not used
combined_on_canonical_state_change_pool(c, vanilla_updates, twod_updates) ==
    [c EXCEPT !.twod_pool = apply_updates(@, twod_updates)]

\* The update lists for the vanilla pool: (address, nonce) pairs
VanillaUpdateLists == UNION {[1..n -> Senders \X Seqs] : n \in 0..1}

combined_add_transaction(tx, nonce_key, sequence) ==
    LET value == combined_add_transaction_value(Combined, tx, nonce_key, sequence)
        to_twod == is_twod_arm(nonce_key, sequence)
    IN /\ to_twod => Cardinality(DOMAIN by_hash) < MaxPool
       /\ \E c \in {combined_add_transaction_pool(Combined, tx, nonce_key, sequence)} :
             /\ SetPool(c.twod_pool)
             /\ vanilla_pool' = c.vanilla_pool
       /\ result' = IF "Ok" \in DOMAIN value THEN "Ok" ELSE value.Err
       /\ accepted' = IF to_twod /\ result' = "Ok" THEN accepted \cup {tx.hash}
                       ELSE accepted
       /\ held' = IF to_twod /\ result' = "Ok" THEN held \cup {tx.hash} ELSE held

combined_on_canonical_state_change(vanilla_updates, twod_updates) ==
    /\ \E c \in {combined_on_canonical_state_change_pool(Combined, vanilla_updates,
                                                          twod_updates)} :
          /\ SetPool(c.twod_pool)
          /\ vanilla_pool' = c.vanilla_pool
    /\ held' = held \ ConfirmedBy(Pool, twod_updates)
    /\ UNCHANGED <<result, accepted>>

CombinedAddNext ==
    /\ \E tx \in Txs, nonce_key \in NonceKeyOptions, sequence \in SequenceOptions :
            combined_add_transaction(tx, nonce_key, sequence)
    /\ UNCHANGED <<merge_vars, nonce_vars, counter_vars>>

CombinedStateChangeNext ==
    /\ \E vanilla_updates \in VanillaUpdateLists, twod_updates \in UpdateLists :
            combined_on_canonical_state_change(vanilla_updates, twod_updates)
    /\ UNCHANGED <<merge_vars, nonce_vars, counter_vars>>

CombinedNext == CombinedAddNext \/ CombinedStateChangeNext

SpecCombined == Init /\ [][CombinedNext]_vars

\* C17: CombinedPool.add_transaction hands the transaction to the
\* TwoDimensionalPool exactly when a nonce_key is given, is not zero, and a
\* sequence is given; in every other case the transaction is added to the
\* vanilla pool, so that CombinedPool.best_transactions offers it, and the
\* 2D pool is left unchanged.
C17_CombinedRouting ==
    \A tx \in Txs, nonce_key \in NonceKeyOptions, sequence \in SequenceOptions :
        LET after == combined_add_transaction_pool(Combined, tx, nonce_key, sequence)
            offered == combined_best_transactions(after)
        IN IF nonce_key # {} /\ sequence # {} /\ nonce_key # {0}
           THEN after.twod_pool =
                    add_transaction_pool(Pool, tx, CHOOSE k \in nonce_key : TRUE,
                                         CHOOSE q \in sequence : TRUE)
           ELSE /\ after.twod_pool = Pool
                /\ \E i \in 1..Len(offered) : offered[i] = tx

\* C18: CombinedPool.on_canonical_state_change(vanilla_updates,
\* twod_updates) applies vanilla_updates to the vanilla pool and
\* twod_updates to the TwoDimensionalPool: after the call the vanilla pool
\* knows the nonce of every account of vanilla_updates and the 2D pool has
\* run its updates.
C18_CombinedStateChange ==
    \A vanilla_updates \in VanillaUpdateLists, twod_updates \in UpdateLists :
        LET after == combined_on_canonical_state_change_pool(Combined, vanilla_updates,
                                                             twod_updates)
        IN /\ after.twod_pool = apply_updates(Pool, twod_updates)
           /\ \A i \in 1..Len(vanilla_updates) :
                 /\ vanilla_updates[i][1] \in DOMAIN after.vanilla_pool.nonces
                 /\ after.vanilla_pool.nonces[vanilla_updates[i][1]]
                        = vanilla_updates[i][2]

----------------------------------------------------------------------------
(* NonceManager: the expiring nonces *)

\* u64::MAX, of a word narrowed for the model
U64_MAX == 31

MAX_CASCADE_CLEANUP == 10

\* The sum of the window check wrapping round at the u64 maximum
saturating_add_wrapping(a, b) == (a + b) % (U64_MAX + 1)

saturating_add(a, b) == IF a + b > U64_MAX THEN U64_MAX ELSE a + b

wrapping_add(a, b) == (a + b) % (U64_MAX + 1)

Nonce == [seen |-> expiring_nonce_seen, buffer |-> expiring_nonce_buffer,
          head |-> expiring_nonce_head, tail |-> expiring_nonce_tail]

\* is_expiring_nonce_seen without the comparison with now
is_expiring_nonce_seen_ever(n, tx_hash, at) ==
    LET expiry == n.seen[tx_hash] IN expiry # 0

is_expiring_nonce_seen(n, tx_hash, at) ==
    LET expiry == n.seen[tx_hash] IN expiry # 0 /\ expiry > at

\* The liveness test of cleanup with its comparison turned round
entry_is_live_inverted(old_expiry, at) == old_expiry # 0 /\ old_expiry < at

\* The liveness test of cleanup answering that no entry is still valid
entry_is_live_never(old_expiry, at) == old_expiry # 0 /\ old_expiry > at /\ at < 0

\* The test of cleanup_expired_head that stops at an entry still valid
entry_is_live(old_expiry, at) == old_expiry # 0 /\ old_expiry > at

\* The loop of cleanup without its test of head against tail
RECURSIVE CleanupLoopNoTail(_, _, _, _)
CleanupLoopNoTail(n, tail, cleaned, at) ==
    IF cleaned < MAX_CASCADE_CLEANUP
    THEN LET old_hash == n.buffer[n.head]
         IN IF old_hash = B256_ZERO
            THEN CleanupLoopNoTail([n EXCEPT !.head = wrapping_add(@, 1)],
                                     tail, cleaned + 1, at)
            ELSE IF entry_is_live(n.seen[old_hash], at)
            THEN [n |-> n, cleaned |-> cleaned]
            ELSE CleanupLoopNoTail([n EXCEPT !.seen[old_hash] = 0,
                                               !.buffer[n.head] = B256_ZERO,
                                               !.head = wrapping_add(@, 1)],
                                     tail, cleaned + 1, at)
    ELSE [n |-> n, cleaned |-> cleaned]

\* The loop of cleanup without its limit on the entries cleaned
RECURSIVE CleanupLoopUnbounded(_, _, _, _)
CleanupLoopUnbounded(n, tail, cleaned, at) ==
    IF n.head < tail
    THEN LET old_hash == n.buffer[n.head]
         IN IF old_hash = B256_ZERO
            THEN CleanupLoopUnbounded([n EXCEPT !.head = wrapping_add(@, 1)],
                                      tail, cleaned + 1, at)
            ELSE IF entry_is_live(n.seen[old_hash], at)
            THEN [n |-> n, cleaned |-> cleaned]
            ELSE CleanupLoopUnbounded([n EXCEPT !.seen[old_hash] = 0,
                                                !.buffer[n.head] = B256_ZERO,
                                                !.head = wrapping_add(@, 1)],
                                      tail, cleaned + 1, at)
    ELSE [n |-> n, cleaned |-> cleaned]

\* The while loop of cleanup_expired_head
RECURSIVE CleanupLoop(_, _, _, _)
CleanupLoop(n, tail, cleaned, at) ==
    IF n.head < tail /\ cleaned < MAX_CASCADE_CLEANUP
    THEN LET old_hash == n.buffer[n.head]
         IN IF old_hash = B256_ZERO
            THEN CleanupLoop([n EXCEPT !.head = wrapping_add(@, 1)],
                             tail, cleaned + 1, at)
            ELSE IF entry_is_live(n.seen[old_hash], at)
            THEN [n |-> n, cleaned |-> cleaned]
            ELSE CleanupLoop([n EXCEPT !.seen[old_hash] = 0,
                                       !.buffer[n.head] = B256_ZERO,
                                       !.head = wrapping_add(@, 1)],
                             tail, cleaned + 1, at)
    ELSE [n |-> n, cleaned |-> cleaned]

\* head is written back only if something was cleaned
cleanup_expired_head(n, at) ==
    LET done == CleanupLoop(n, n.tail, 0, at)
    IN IF done.cleaned > 0 THEN done.n
       ELSE [done.n EXCEPT !.head = n.head]

InvalidExpiry == "invalid expiring nonce expiry"
Replay == "expiring nonce replay"

\* The checks with a replay test that ignores the expiry of the entry
check_and_mark_result_no_expiry(n, tx_hash, valid_before, at, max_skew_secs) ==
    IF valid_before <= at \/ valid_before > saturating_add(at, max_skew_secs)
    THEN InvalidExpiry
    ELSE IF n.seen[tx_hash] # 0 THEN Replay
    ELSE "Ok"

\* The checks with the lower bound of the window inclusive
check_and_mark_result_from_now(n, tx_hash, valid_before, at, max_skew_secs) ==
    IF valid_before < at \/ valid_before > saturating_add(at, max_skew_secs)
    THEN InvalidExpiry
    ELSE IF n.seen[tx_hash] # 0 /\ n.seen[tx_hash] > at THEN Replay
    ELSE "Ok"

check_and_mark_result(n, tx_hash, valid_before, at, max_skew_secs) ==
    IF valid_before <= at \/ valid_before > saturating_add(at, max_skew_secs)
    THEN InvalidExpiry
    ELSE IF n.seen[tx_hash] # 0 /\ n.seen[tx_hash] > at THEN Replay
    ELSE "Ok"

\* The storage if the cleanup ran before the checks and stayed on an error
check_and_mark_storage_cleanup_first(n, tx_hash, valid_before, at, max_skew_secs) ==
    LET n1 == cleanup_expired_head(n, at)
        tail == n1.tail
    IN IF check_and_mark_result(n, tx_hash, valid_before, at, max_skew_secs) # "Ok"
       THEN n1
       ELSE [n1 EXCEPT !.buffer[tail] = tx_hash,
                       !.seen[tx_hash] = valid_before,
                       !.tail = wrapping_add(tail, 1)]

\* The storage if the insert left the tail where it is
check_and_mark_storage_no_advance(n, tx_hash, valid_before, at, max_skew_secs) ==
    IF check_and_mark_result(n, tx_hash, valid_before, at, max_skew_secs) # "Ok"
    THEN n
    ELSE LET n1 == cleanup_expired_head(n, at)
             tail == n1.tail
         IN [n1 EXCEPT !.buffer[tail] = tx_hash,
                       !.seen[tx_hash] = valid_before]

\* The storage after check_and_mark_expiring_nonce; an error leaves it as
\* it was
check_and_mark_storage(n, tx_hash, valid_before, at, max_skew_secs) ==
    IF check_and_mark_result(n, tx_hash, valid_before, at, max_skew_secs) # "Ok"
    THEN n
    ELSE LET n1 == cleanup_expired_head(n, at)
             tail == n1.tail
         IN [n1 EXCEPT !.buffer[tail] = tx_hash,
                       !.seen[tx_hash] = valid_before,
                       !.tail = wrapping_add(tail, 1)]

check_and_mark_expiring_nonce(tx_hash, valid_before, max_skew_secs) ==
    /\ \E n \in {check_and_mark_storage(Nonce, tx_hash, valid_before, now, max_skew_secs)} :
          /\ expiring_nonce_seen' = n.seen
          /\ expiring_nonce_buffer' = n.buffer
          /\ expiring_nonce_head' = n.head
          /\ expiring_nonce_tail' = n.tail
    /\ nonce_result' = check_and_mark_result(Nonce, tx_hash, valid_before, now, max_skew_secs)
    /\ max_mark' = IF nonce_result' = "Ok" /\ valid_before > max_mark[tx_hash]
                   THEN [max_mark EXCEPT ![tx_hash] = valid_before]
                   ELSE max_mark
    /\ mark_slot' = IF nonce_result' = "Ok"
                    THEN [mark_slot EXCEPT ![tx_hash] = expiring_nonce_tail' - 1]
                    ELSE mark_slot
    /\ marks' = IF nonce_result' = "Ok" THEN marks + 1 ELSE marks
    /\ UNCHANGED now

\* The next block: its timestamp is later
advance_time ==
    /\ now < MaxNow
    /\ now' = now + 1
    /\ UNCHANGED <<expiring_nonce_seen, expiring_nonce_buffer, expiring_nonce_head,
                   expiring_nonce_tail, nonce_result, max_mark, mark_slot, marks>>

ValidBefores == 0..(MaxNow + MaxSkew + 1)

Skews == 1..MaxSkew

CheckAndMarkNext ==
    /\ expiring_nonce_tail < MaxTail
    /\ \E tx_hash \in TxHashes, valid_before \in ValidBefores, max_skew_secs \in Skews :
            check_and_mark_expiring_nonce(tx_hash, valid_before, max_skew_secs)
    /\ UNCHANGED <<pool_vars, merge_vars, combined_vars, counter_vars>>

AdvanceTimeNext == advance_time /\ UNCHANGED <<pool_vars, merge_vars, combined_vars, counter_vars>>

NonceNext == CheckAndMarkNext \/ AdvanceTimeNext

SpecNonce == Init /\ [][NonceNext]_vars

\* A burst of calls: every call brings a hash not used before, with
\* valid_before = now + 1, until the buffer has taken MaxFill entries
FillNext ==
    /\ expiring_nonce_tail < MaxFill
    /\ check_and_mark_expiring_nonce(expiring_nonce_tail + 1, now + 1, 1)
    /\ UNCHANGED <<pool_vars, merge_vars, combined_vars, counter_vars>>

BurstNext == FillNext \/ AdvanceTimeNext

SpecFill == Init /\ [][BurstNext]_vars

\* C4: once check_and_mark_expiring_nonce(h, V, ..) has succeeded, a call
\* for the same hash at a time now < V that passes the window check returns
\* "expiring nonce replay", whatever calls for other hashes and whatever
\* cleanups happened in between.
C4_ReplayRejected ==
    \A tx_hash \in TxHashes, valid_before \in ValidBefores, max_skew_secs \in Skews :
        LET returned == check_and_mark_result(Nonce, tx_hash, valid_before, now,
                                              max_skew_secs)
        IN (max_mark[tx_hash] > now /\ returned # InvalidExpiry) => returned = Replay

\* A replay was rejected after a call for another hash had cleaned an
\* expired entry out of the buffer.
C4_Witness ==
    /\ nonce_result = Replay
    /\ expiring_nonce_head > 0
    /\ \E a, c \in TxHashes :
          /\ max_mark[a] > now
          /\ max_mark[c] # 0 /\ expiring_nonce_seen[c] = 0

\* C20: check_and_mark_expiring_nonce returns "invalid expiring nonce
\* expiry" exactly when NOT (now < valid_before <= now + max_skew), for
\* every hash, one already seen included: the window is checked before the
\* replay.
C20_WindowCheck ==
    \A tx_hash \in TxHashes, valid_before \in ValidBefores, max_skew_secs \in Skews :
        LET returned == check_and_mark_result(Nonce, tx_hash, valid_before, now,
                                              max_skew_secs)
        IN (returned = InvalidExpiry)
               <=> ~(now < valid_before /\ valid_before <= now + max_skew_secs)

\* A call was rejected for its expiry at a time when a hash is marked with
\* valid_before = now + MaxSkew, the upper end of the window.
C20_Witness ==
    /\ nonce_result = InvalidExpiry
    /\ \E tx_hash \in TxHashes : expiring_nonce_seen[tx_hash] = now + MaxSkew

\* C21: after a successful check_and_mark_expiring_nonce(h, V, ..), a later
\* call for h at a time now >= V with a valid window succeeds and sets the
\* seen entry of h to the new valid_before, whether or not the old buffer
\* slot of h has been cleaned by then.
C21_ReuseAfterExpiry ==
    \A tx_hash \in TxHashes, valid_before \in ValidBefores, max_skew_secs \in Skews :
        LET returned == check_and_mark_result(Nonce, tx_hash, valid_before, now,
                                              max_skew_secs)
            after == check_and_mark_storage(Nonce, tx_hash, valid_before, now,
                                            max_skew_secs)
        IN (/\ max_mark[tx_hash] # 0
            /\ now >= max_mark[tx_hash]
            /\ now < valid_before /\ valid_before <= now + max_skew_secs)
           => returned = "Ok" /\ after.seen[tx_hash] = valid_before

\* A hash was marked again while its old slot is still in the buffer: it
\* is in two slots of [head, tail) and is seen.
C21_Witness ==
    /\ nonce_result = "Ok"
    /\ \E tx_hash \in TxHashes \ {B256_ZERO} :
          /\ expiring_nonce_seen[tx_hash] > now
          /\ \E i, j \in expiring_nonce_head..(expiring_nonce_tail - 1) :
                /\ i < j
                /\ expiring_nonce_buffer[i] = tx_hash
                /\ expiring_nonce_buffer[j] = tx_hash

\* C22: with non-decreasing now, is_expiring_nonce_seen(h, at) for at >= now
\* is true exactly when the most recent successful mark of h used a
\* valid_before > at, and false when h was never marked or its latest
\* valid_before <= at, whatever cleanup has run.
C22_SeenIffLive ==
    \A tx_hash \in TxHashes, at \in now..(MaxNow + MaxSkew) :
        is_expiring_nonce_seen(Nonce, tx_hash, at) <=> max_mark[tx_hash] > at

\* One hash is live, one is expired with its entry still stored, and one
\* is expired with its entry cleaned.
C22_Witness ==
    \E a, b, c \in TxHashes :
        /\ max_mark[a] > now /\ expiring_nonce_seen[a] = max_mark[a]
        /\ max_mark[b] # 0 /\ max_mark[b] <= now /\ expiring_nonce_seen[b] = max_mark[b]
        /\ max_mark[c] # 0 /\ expiring_nonce_seen[c] = 0

\* C23: a single check_and_mark_expiring_nonce call advances
\* expiring_nonce_head by at most MAX_CASCADE_CLEANUP and clears at most
\* MAX_CASCADE_CLEANUP seen entries, however many expired entries are
\* outstanding in [head, tail).
C23_CleanupBound ==
    [][/\ expiring_nonce_head' - expiring_nonce_head <= MAX_CASCADE_CLEANUP
       /\ Cardinality({h \in StoredHashes :
                          expiring_nonce_seen[h] # 0 /\ expiring_nonce_seen'[h] = 0})
             <= MAX_CASCADE_CLEANUP]_nonce_vars

\* Fifteen entries had expired when the sixteenth was inserted: that call
\* moved head from 0 to 10 and five expired entries are left behind it.
C23_Witness ==
    /\ expiring_nonce_head = MAX_CASCADE_CLEANUP
    /\ expiring_nonce_tail = MAX_CASCADE_CLEANUP + 6
    /\ \A i \in expiring_nonce_head..(expiring_nonce_tail - 2) :
          /\ expiring_nonce_buffer[i] # B256_ZERO
          /\ expiring_nonce_seen[expiring_nonce_buffer[i]] # 0
          /\ expiring_nonce_seen[expiring_nonce_buffer[i]] <= now
    /\ expiring_nonce_seen[expiring_nonce_buffer[expiring_nonce_tail - 1]] > now

\* C24: cleanup never advances expiring_nonce_head past a buffer entry that
\* is still live: for every hash that can be passed to
\* check_and_mark_expiring_nonce, if a mark of it succeeded with
\* valid_before > now, the slot where it was inserted is in [head, tail).
C24_LiveEntryInBuffer ==
    \A tx_hash \in TxHashes :
        max_mark[tx_hash] > now =>
            /\ expiring_nonce_head <= mark_slot[tx_hash]
            /\ mark_slot[tx_hash] < expiring_nonce_tail

\* C25: expiring_nonce_head <= expiring_nonce_tail in every reachable state,
\* and neither pointer decreases from one call to the next.
C25_HeadTailOrder ==
    /\ [](expiring_nonce_head <= expiring_nonce_tail)
    /\ [][/\ expiring_nonce_head' >= expiring_nonce_head
           /\ expiring_nonce_tail' >= expiring_nonce_tail]_nonce_vars

\* Cleanup has moved head forward and has stopped at a live entry before
\* the tail.
C25_Witness ==
    /\ expiring_nonce_head >= 2
    /\ expiring_nonce_head < expiring_nonce_tail - 1
    /\ expiring_nonce_seen[expiring_nonce_buffer[expiring_nonce_head]] > now

----------------------------------------------------------------------------
(* NonceManager: the keyed counters *)

\* increment_nonce is followed while fewer than MaxEvents events are emitted
MaxEvents == 3

\* The storage of the contract
Manager == [nonces |-> nonces,
            expiring_nonce_seen |-> expiring_nonce_seen,
            expiring_nonce_buffer |-> expiring_nonce_buffer,
            expiring_nonce_head |-> expiring_nonce_head,
            expiring_nonce_tail |-> expiring_nonce_tail]

ProtocolNonceNotSupported == "protocol nonce not supported"
InvalidNonceKey == "invalid nonce key"
NonceOverflow == "nonce overflow"

\* an addition that wraps instead of failing
checked_add_wrapping(a, b) == {wrapping_add(a, b)}

\* u64::checked_add: None on overflow
checked_add(a, b) == IF a + b > U64_MAX THEN {} ELSE {a + b}

get_nonce(m, account, nonceKey) ==
    IF nonceKey = 0 THEN [Err |-> ProtocolNonceNotSupported]
    ELSE [Ok |-> m.nonces[<<account, nonceKey>>]]

\* increment_nonce without its test of the key
increment_nonce_value_any_key(m, account, nonce_key) ==
    LET current == m.nonces[<<account, nonce_key>>]
        new_nonce == checked_add(current, 1)
    IN IF new_nonce = {} THEN [Err |-> NonceOverflow]
       ELSE [Ok |-> CHOOSE v \in new_nonce : TRUE]

\* What increment_nonce returns
increment_nonce_value(m, account, nonce_key) ==
    IF nonce_key = 0 THEN [Err |-> InvalidNonceKey]
    ELSE LET current == m.nonces[<<account, nonce_key>>]
             new_nonce == checked_add(current, 1)
         IN IF new_nonce = {} THEN [Err |-> NonceOverflow]
            ELSE [Ok |-> CHOOSE v \in new_nonce : TRUE]

\* increment_nonce that does not persist the new value
increment_nonce_storage_stale(m, account, nonce_key) == m

\* increment_nonce that writes the counter of the key for every account
increment_nonce_storage_by_key(m, account, nonce_key) ==
    LET value == increment_nonce_value(m, account, nonce_key)
    IN IF "Ok" \in DOMAIN value
       THEN [m EXCEPT !.nonces = [c \in DOMAIN @ |->
                                     IF c[2] = nonce_key THEN value.Ok ELSE @[c]]]
       ELSE m

\* The storage after increment_nonce
increment_nonce_storage(m, account, nonce_key) ==
    LET value == increment_nonce_value(m, account, nonce_key)
    IN IF "Ok" \in DOMAIN value
       THEN [m EXCEPT !.nonces[<<account, nonce_key>>] = value.Ok]
       ELSE m

\* increment_nonce that emits the value read instead of the value written
increment_nonce_events_old_value(m, emitted, account, nonce_key) ==
    LET value == increment_nonce_value(m, account, nonce_key)
    IN IF "Ok" \in DOMAIN value
       THEN Append(emitted, [account |-> account, nonceKey |-> nonce_key,
                             newNonce |-> m.nonces[<<account, nonce_key>>]])
       ELSE emitted

\* The events after increment_nonce
increment_nonce_events(m, emitted, account, nonce_key) ==
    LET value == increment_nonce_value(m, account, nonce_key)
    IN IF "Ok" \in DOMAIN value
       THEN Append(emitted, [account |-> account, nonceKey |-> nonce_key,
                             newNonce |-> value.Ok])
       ELSE emitted

increment_nonce(account, nonce_key) ==
    /\ \E m \in {increment_nonce_storage(Manager, account, nonce_key)} :
          /\ nonces' = m.nonces
          /\ expiring_nonce_seen' = m.expiring_nonce_seen
          /\ expiring_nonce_buffer' = m.expiring_nonce_buffer
          /\ expiring_nonce_head' = m.expiring_nonce_head
          /\ expiring_nonce_tail' = m.expiring_nonce_tail
    /\ events' = increment_nonce_events(Manager, events, account, nonce_key)
    /\ counter_result' = increment_nonce_value(Manager, account, nonce_key)
    /\ succeeded' = IF "Ok" \in DOMAIN counter_result'
                    THEN [succeeded EXCEPT ![<<account, nonce_key>>] = @ + 1]
                    ELSE succeeded
    /\ UNCHANGED <<now, nonce_result, max_mark, mark_slot, marks>>

\* The counters at the start: each has been incremented 0 times or
\* U64_MAX - 1 times; no call was ever accepted for key 0
CounterInit ==
    /\ nonces \in [Counters -> {0, U64_MAX - 1}]
    /\ \A c \in Counters : c[2] = 0 => nonces[c] = 0
    /\ succeeded = nonces
    /\ events = << >>
    /\ counter_result = [None |-> "none"]

InitCounter == PoolInit /\ MergeIdle /\ NonceIdle /\ VanillaInit /\ CounterInit

IncrementNext ==
    /\ Len(events) < MaxEvents
    /\ \E account \in Senders, nonce_key \in CounterKeys :
            increment_nonce(account, nonce_key)
    /\ UNCHANGED <<pool_vars, merge_vars, combined_vars>>

\* One expiring nonce is marked beside the counters
CounterMarkNext ==
    /\ expiring_nonce_tail < 1
    /\ \E tx_hash \in TxHashes \ {B256_ZERO} :
            check_and_mark_expiring_nonce(tx_hash, now + 1, 1)
    /\ UNCHANGED <<pool_vars, merge_vars, combined_vars, counter_vars>>

CounterNext == IncrementNext \/ CounterMarkNext

SpecCounter == InitCounter /\ [][CounterNext]_vars

\* C26: for every account, get_nonce with nonce key 0 and increment_nonce
\* with nonce key 0 return an error, and neither changes a stored counter
\* nor emits an event.
C26_ProtocolNonceRejected ==
    \A account \in Senders :
        /\ "Err" \in DOMAIN get_nonce(Manager, account, 0)
        /\ "Err" \in DOMAIN increment_nonce_value(Manager, account, 0)
        /\ increment_nonce_storage(Manager, account, 0) = Manager
        /\ increment_nonce_events(Manager, events, account, 0) = events

\* increment_nonce with key 0 was rejected after other increments had
\* succeeded.
C26_Witness ==
    /\ counter_result = [Err |-> InvalidNonceKey]
    /\ events # << >>
    /\ \A account \in Senders : nonces[<<account, 0>>] = 0

\* C27: for every account and key != 0, get_nonce returns the number of
\* successful increment_nonce calls for that counter (0 before any), and a
\* successful increment_nonce returns and stores the value stored before
\* plus one.
C27_CounterCounts ==
    \A account \in Senders, nonce_key \in NonceKeys :
        LET counter == <<account, nonce_key>>
            value == increment_nonce_value(Manager, account, nonce_key)
            after == increment_nonce_storage(Manager, account, nonce_key)
        IN /\ get_nonce(Manager, account, nonce_key) = [Ok |-> succeeded[counter]]
           /\ "Ok" \in DOMAIN value =>
                 /\ value.Ok = nonces[counter] + 1
                 /\ get_nonce(after, account, nonce_key) = [Ok |-> value.Ok]

\* A counter that started at 0 was incremented twice; the second call
\* returned 2.
C27_Witness ==
    /\ counter_result = [Ok |-> 2]
    /\ \E c \in Counters : nonces[c] = 2 /\ succeeded[c] = 2
    /\ Len(events) >= 2

\* C28: increment_nonce on a counter whose stored value is the maximum u64
\* returns the error "nonce overflow", leaves the counter at the maximum
\* and emits no event.
C28_OverflowRejected ==
    \A account \in Senders, nonce_key \in NonceKeys :
        nonces[<<account, nonce_key>>] = U64_MAX =>
            /\ increment_nonce_value(Manager, account, nonce_key) = [Err |-> NonceOverflow]
            /\ increment_nonce_storage(Manager, account, nonce_key) = Manager
            /\ increment_nonce_events(Manager, events, account, nonce_key) = events

\* A counter has reached the maximum and the call after that was rejected.
C28_Witness ==
    /\ counter_result = [Err |-> NonceOverflow]
    /\ \E c \in Counters : nonces[c] = U64_MAX /\ succeeded[c] = U64_MAX
    /\ events # << >>

\* C29: increment_nonce(account, key) changes only nonces[account][key]:
\* every other counter and the expiring-nonce state (seen, buffer, head,
\* tail) are unchanged.
C29_CountersIndependent ==
    \A account \in Senders, nonce_key \in CounterKeys :
        LET after == increment_nonce_storage(Manager, account, nonce_key)
        IN /\ \A c \in Counters \ {<<account, nonce_key>>} : after.nonces[c] = nonces[c]
           /\ after.expiring_nonce_seen = expiring_nonce_seen
           /\ after.expiring_nonce_buffer = expiring_nonce_buffer
           /\ after.expiring_nonce_head = expiring_nonce_head
           /\ after.expiring_nonce_tail = expiring_nonce_tail

\* Two counters of one key and two counters of one account differ after
\* increments, beside a marked expiring nonce.
C29_Witness ==
    /\ "Ok" \in DOMAIN counter_result
    /\ expiring_nonce_tail = 1
    /\ nonces[<<A1, 1>>] = 1 /\ nonces[<<A2, 1>>] = 0 /\ nonces[<<A1, 2>>] = 2

\* C30: every successful increment_nonce appends exactly one
\* NonceIncremented event carrying the account, the nonce key and newNonce
\* equal to the returned value, after the events of the earlier calls; a
\* failing increment_nonce appends none.
C30_EventPerIncrement ==
    /\ [](\A account \in Senders, nonce_key \in CounterKeys :
             LET value == increment_nonce_value(Manager, account, nonce_key)
                 emitted == increment_nonce_events(Manager, events, account, nonce_key)
             IN IF "Ok" \in DOMAIN value
                THEN emitted = Append(events, [account |-> account,
                                               nonceKey |-> nonce_key,
                                               newNonce |-> value.Ok])
                ELSE emitted = events)
    /\ [][IF "Ok" \in DOMAIN counter_result'
          THEN /\ Len(events') = Len(events) + 1
               /\ SubSeq(events', 1, Len(events)) = events
               /\ events'[Len(events')].newNonce = counter_result'.Ok
          ELSE events' = events]_counter_vars

\* Two events of two counters were emitted, in the order of the calls, and
\* a call after them failed without an event.
C30_Witness ==
    /\ "Err" \in DOMAIN counter_result
    /\ Len(events) = 2
    /\ events[1] = [account |-> A2, nonceKey |-> 2, newNonce |-> 1]
    /\ events[2] = [account |-> A1, nonceKey |-> 1, newNonce |-> 1]

----------------------------------------------------------------------------
(* NonceManager: the effect of one check_and_mark_expiring_nonce call *)

\* C31: a check_and_mark_expiring_nonce call that returns an error (invalid
\* expiry window or replay) leaves expiring_nonce_head, expiring_nonce_tail,
\* every buffer slot and every seen entry as before the call: no cleanup is
\* performed and tail does not advance.
C31_ErrorRetainsNothing ==
    \A tx_hash \in TxHashes, valid_before \in ValidBefores, max_skew_secs \in Skews :
        LET returned == check_and_mark_result(Nonce, tx_hash, valid_before, now,
                                              max_skew_secs)
            after == check_and_mark_storage(Nonce, tx_hash, valid_before, now,
                                            max_skew_secs)
        IN returned # "Ok" =>
              /\ after.head = expiring_nonce_head
              /\ after.tail = expiring_nonce_tail
              /\ after.buffer = expiring_nonce_buffer
              /\ after.seen = expiring_nonce_seen

\* A replay was rejected while the entry at head had expired: a cleanup
\* would have cleared it, and it is still stored.
C31_Witness ==
    /\ nonce_result = Replay
    /\ expiring_nonce_head < expiring_nonce_tail
    /\ LET old_hash == expiring_nonce_buffer[expiring_nonce_head]
       IN /\ old_hash # B256_ZERO
          /\ expiring_nonce_seen[old_hash] # 0
          /\ expiring_nonce_seen[old_hash] <= now

\* C32: the buffer has no maximum number of outstanding entries: a
\* successful check_and_mark_expiring_nonce call made while the entry at
\* head has not expired (or the buffer is empty) leaves head where it is and
\* advances tail, so expiring_nonce_tail - expiring_nonce_head grows by one
\* with every such call, whatever its size already is.
C32_GrowsWhileHeadLive ==
    \A tx_hash \in StoredHashes, valid_before \in ValidBefores, max_skew_secs \in Skews :
        LET returned == check_and_mark_result(Nonce, tx_hash, valid_before, now,
                                              max_skew_secs)
            after == check_and_mark_storage(Nonce, tx_hash, valid_before, now,
                                            max_skew_secs)
            old_hash == expiring_nonce_buffer[expiring_nonce_head]
        IN (/\ returned = "Ok"
            /\ \/ expiring_nonce_head = expiring_nonce_tail
               \/ /\ expiring_nonce_head < expiring_nonce_tail
                  /\ old_hash # B256_ZERO
                  /\ expiring_nonce_seen[old_hash] > now)
           => /\ after.head = expiring_nonce_head
              /\ after.tail - after.head
                    = expiring_nonce_tail - expiring_nonce_head + 1

\* MaxFill calls at one timestamp: the buffer holds MaxFill entries, none
\* of them expired, and nothing has been cleaned.
C32_Witness ==
    /\ nonce_result = "Ok"
    /\ expiring_nonce_tail - expiring_nonce_head = MaxFill
    /\ \A i \in expiring_nonce_head..(expiring_nonce_tail - 1) :
          /\ expiring_nonce_buffer[i] # B256_ZERO
          /\ expiring_nonce_seen[expiring_nonce_buffer[i]] > now

\* C33: every successful check_and_mark_expiring_nonce(h, V, now, skew)
\* writes h into the buffer slot at the tail value read after cleanup, sets
\* the seen entry of h to V and advances expiring_nonce_tail by exactly one;
\* starting from the empty state, tail equals the number of successful
\* calls.
C33_InsertAtTail ==
    /\ expiring_nonce_tail = marks
    /\ \A tx_hash \in TxHashes, valid_before \in ValidBefores, max_skew_secs \in Skews :
          LET returned == check_and_mark_result(Nonce, tx_hash, valid_before, now,
                                                max_skew_secs)
              after == check_and_mark_storage(Nonce, tx_hash, valid_before, now,
                                              max_skew_secs)
              tail == cleanup_expired_head(Nonce, now).tail
          IN returned = "Ok" =>
                /\ after.buffer[tail] = tx_hash
                /\ after.seen[tx_hash] = valid_before
                /\ after.tail = expiring_nonce_tail + 1
                /\ tail = expiring_nonce_tail

\* Three calls have succeeded and one has failed after them; the last
\* successful one, made after a cleanup, has its hash in slot 2.
C33_Witness ==
    /\ nonce_result # "Ok"
    /\ marks = 3
    /\ expiring_nonce_tail = 3
    /\ expiring_nonce_head >= 1
    /\ expiring_nonce_buffer[2] # B256_ZERO
    /\ expiring_nonce_seen[expiring_nonce_buffer[2]] > now
    /\ mark_slot[expiring_nonce_buffer[2]] = 2

\* C34: physical eviction at the head: if at a successful
\* check_and_mark_expiring_nonce call all n <= MAX_CASCADE_CLEANUP entries in
\* [head, tail) are expired (expiry <= now), then after the call head equals
\* the old tail, the buffer slots of those entries are zero, the seen entry
\* of each of their hashes is 0 (the hash the call itself inserts apart),
\* and tail is the old tail + 1.
C34_HeadEviction ==
    \A tx_hash \in TxHashes, valid_before \in ValidBefores, max_skew_secs \in Skews :
        LET returned == check_and_mark_result(Nonce, tx_hash, valid_before, now,
                                              max_skew_secs)
            after == check_and_mark_storage(Nonce, tx_hash, valid_before, now,
                                            max_skew_secs)
            entries == expiring_nonce_head..(expiring_nonce_tail - 1)
        IN (/\ returned = "Ok"
            /\ expiring_nonce_tail - expiring_nonce_head <= MAX_CASCADE_CLEANUP
            /\ \A i \in entries :
                  expiring_nonce_seen[expiring_nonce_buffer[i]] <= now)
           => /\ after.head = expiring_nonce_tail
              /\ after.tail = expiring_nonce_tail + 1
              /\ \A i \in entries :
                    /\ after.buffer[i] = B256_ZERO
                    /\ expiring_nonce_buffer[i] # tx_hash
                          => after.seen[expiring_nonce_buffer[i]] = 0

----------------------------------------------------------------------------
(* TwoDimensionalPool: the queue branch and the hash index *)

\* C35: an accepted add_transaction whose sequence is greater than the lane
\* baseline inserts the transaction into queued[lane] and by_hash only:
\* pending, ordering and nonce_state are unchanged, the other queued entries
\* of the lane stay queued (none is promoted) and the other lanes are
\* untouched.
C35_QueueBranchFrame ==
    \A tx \in Txs, nonce_key \in NonceKeys, sequence \in Seqs :
        LET sender_key == SenderKey(tx.sender, nonce_key)
            after == add_transaction_pool(Pool, tx, nonce_key, sequence)
        IN (/\ add_transaction_result(Pool, tx, nonce_key, sequence) = "Ok"
            /\ sequence > get_on_chain_sequence(Pool, sender_key))
           => /\ after.pending = pending
              /\ after.ordering = ordering
              /\ after.nonce_state = nonce_state
              /\ after.by_hash = MapInsert(by_hash, tx.hash, tx)
              /\ LaneQueued(after, sender_key)
                    = MapInsert(LaneQueued(Pool, sender_key), sequence, tx)
              /\ \A lane \in Lanes \ {sender_key} :
                    LaneQueued(after, lane) = LaneQueued(Pool, lane)

\* A transaction was queued at sequence 2 of a lane that has sequence 0
\* pending and sequence 1 queued: nothing was promoted.
C35_Witness ==
    /\ result = "Ok"
    /\ \E lane \in Lanes :
          /\ DOMAIN LanePending(Pool, lane) = {0}
          /\ DOMAIN LaneQueued(Pool, lane) = {1, 2}
          /\ get_on_chain_sequence(Pool, lane) = 0

\* The transactions stored in queued of some lane
QueuedTxs == UNION {{queued[lane][s] : s \in DOMAIN queued[lane]} :
                       lane \in DOMAIN queued}

\* C36: by_hash holds exactly the transactions stored in pending or queued
\* of some lane: every stored transaction is found by its hash, and no hash
\* stays in by_hash once its transaction is in neither map, so no hash is
\* rejected as "already imported" on behalf of a transaction the pool no
\* longer holds.
C36_ByHashExact ==
    /\ \A tx \in PendingTxs \cup QueuedTxs :
          tx.hash \in DOMAIN by_hash /\ by_hash[tx.hash] = tx
    /\ \A h \in DOMAIN by_hash : by_hash[h] \in PendingTxs \cup QueuedTxs

\* C37: after on_canonical_state_change with update (lane, n) the pool
\* holds no transaction of that lane with sequence < n: none in pending,
\* none in queued, and the hash of none of those it held in by_hash.
C37_NothingBelowBaseline ==
    \A lane \in Lanes, n \in Seqs :
        LET after == apply_update(Pool, lane, n)
        IN /\ \A s \in DOMAIN LanePending(after, lane) : s >= n
           /\ \A s \in DOMAIN LaneQueued(after, lane) : s >= n
           /\ \A s \in DOMAIN LanePending(Pool, lane) :
                 s < n => pending[lane][s].hash \notin DOMAIN after.by_hash
           /\ \A s \in DOMAIN LaneQueued(Pool, lane) :
                 s < n => queued[lane][s].hash \notin DOMAIN after.by_hash

----------------------------------------------------------------------------
(* NonceManager: the seen entries and the buffer *)

\* C38: in every state reachable by check_and_mark_expiring_nonce calls,
\* every hash whose seen entry is non-zero is stored in at least one buffer
\* slot with index in [head, tail), so that cleanup can still reach and
\* clear it.
C38_SeenBackedBySlot ==
    \A tx_hash \in TxHashes :
        expiring_nonce_seen[tx_hash] # 0 =>
            \E i \in expiring_nonce_head..(expiring_nonce_tail - 1) :
                expiring_nonce_buffer[i] = tx_hash

\* C39: reclamation progress: when the entry at distance d from head and
\* all entries before it are expired (expiry <= now), a successful
\* check_and_mark_expiring_nonce call clears the first
\* min(MAX_CASCADE_CLEANUP, d + 1) of them: for d < MAX_CASCADE_CLEANUP the
\* entry is physically cleared by that call (slot zeroed, seen entry 0, the
\* hash the call inserts apart), otherwise head advances by
\* MAX_CASCADE_CLEANUP towards it, so that it is cleared after at most
\* ceil((d + 1) / MAX_CASCADE_CLEANUP) calls; and if all n outstanding
\* entries are expired, tail - head after the call is
\* max(n - MAX_CASCADE_CLEANUP, 0) + 1.
C39_ReclamationProgress ==
    \A tx_hash \in TxHashes, valid_before \in ValidBefores, max_skew_secs \in Skews :
        LET returned == check_and_mark_result(Nonce, tx_hash, valid_before, now,
                                              max_skew_secs)
            after == check_and_mark_storage(Nonce, tx_hash, valid_before, now,
                                            max_skew_secs)
            n == expiring_nonce_tail - expiring_nonce_head
            expired_to(d) ==
                \A i \in expiring_nonce_head..(expiring_nonce_head + d) :
                    expiring_nonce_seen[expiring_nonce_buffer[i]] <= now
        IN returned = "Ok" =>
              /\ \A d \in 0..(n - 1) :
                    expired_to(d) =>
                       LET slot == expiring_nonce_head + d
                           old_hash == expiring_nonce_buffer[slot]
                       IN IF d < MAX_CASCADE_CLEANUP
                          THEN /\ after.head > slot
                               /\ after.buffer[slot] = B256_ZERO
                               /\ old_hash # tx_hash => after.seen[old_hash] = 0
                          ELSE after.head = expiring_nonce_head + MAX_CASCADE_CLEANUP
              /\ (n > 0 /\ expired_to(n - 1)) =>
                    after.tail - after.head
                       = (IF n > MAX_CASCADE_CLEANUP THEN n - MAX_CASCADE_CLEANUP ELSE 0) + 1

----------------------------------------------------------------------------
(* NonceManager: the window check near the u64 maximum *)

\* The calls are followed while the buffer has taken fewer than MaxLate
\* entries
MaxLate == 2

U64s == 0..U64_MAX

\* The timestamps of the last blocks before the u64 maximum
LateNows == (U64_MAX - MaxSkew - 1)..U64_MAX

\* NonceManager::new at a late timestamp
NonceLate ==
    /\ expiring_nonce_seen = [h \in StoredHashes |-> 0]
    /\ expiring_nonce_buffer = [i \in BufferSlots |-> B256_ZERO]
    /\ expiring_nonce_head = 0
    /\ expiring_nonce_tail = 0
    /\ now \in LateNows
    /\ nonce_result = "none"
    /\ max_mark = [h \in StoredHashes |-> 0]
    /\ mark_slot = [h \in StoredHashes |-> 0]
    /\ marks = 0

InitLate == PoolInit /\ MergeIdle /\ NonceLate /\ VanillaInit /\ CounterIdle

\* The next block, up to the last timestamp a u64 holds
advance_time_late ==
    /\ now < U64_MAX
    /\ now' = now + 1
    /\ UNCHANGED <<expiring_nonce_seen, expiring_nonce_buffer, expiring_nonce_head,
                   expiring_nonce_tail, nonce_result, max_mark, mark_slot, marks>>

LateSkews == {1, MaxSkew, U64_MAX}

LateMarkNext ==
    /\ expiring_nonce_tail < MaxLate
    /\ \E tx_hash \in TxHashes, valid_before \in U64s, max_skew_secs \in LateSkews :
            check_and_mark_expiring_nonce(tx_hash, valid_before, max_skew_secs)
    /\ UNCHANGED <<pool_vars, merge_vars, combined_vars, counter_vars>>

LateAdvanceNext ==
    advance_time_late /\ UNCHANGED <<pool_vars, merge_vars, combined_vars, counter_vars>>

LateNext == LateMarkNext \/ LateAdvanceNext

SpecLate == InitLate /\ [][LateNext]_vars

\* C40: the window check of check_and_mark_expiring_nonce agrees with
\* unbounded integer arithmetic for all u64 inputs: the call passes the
\* check exactly when now < valid_before and valid_before - now <= max_skew,
\* also when now + max_skew exceeds the u64 maximum.
C40_WindowNoOverflow ==
    \A tx_hash \in TxHashes, valid_before \in U64s, max_skew_secs \in U64s :
        LET returned == check_and_mark_result(Nonce, tx_hash, valid_before, now,
                                              max_skew_secs)
        IN (returned # InvalidExpiry)
               <=> (now < valid_before /\ valid_before - now <= max_skew_secs)

\* A call at the earliest late timestamp was accepted with valid_before at
\* the u64 maximum: its distance from now is above MaxSkew, so the call had
\* max_skew = U64_MAX and now + max_skew was above the maximum.
C40_Witness ==
    /\ nonce_result = "Ok"
    /\ now = U64_MAX - MaxSkew - 1
    /\ now + U64_MAX > U64_MAX
    /\ \E tx_hash \in TxHashes : expiring_nonce_seen[tx_hash] = U64_MAX

====
